---- MODULE Spec2Model ----
(***************************************************************************)
(* Booking lifecycle of the fitness booking API: the TimeSlot value        *)
(* object, the BookingSession state machine, the BookingService            *)
(* orchestration and the in-memory repositories it drives.                 *)
(*                                                                         *)
(* Errors: the code raises ValueError everywhere; the model names each     *)
(* raise site by the error kind it stands for.                             *)
(***************************************************************************)
EXTENDS Integers, Sequences, FiniteSets, TLC

VARIABLES
    client_storage,   \* InMemoryClientRepository._storage (its keys)
    trainer_storage,  \* InMemoryTrainerRepository._storage (its keys)
    booking_storage,  \* InMemoryBookingRepository._storage: booking_id -> BookingSession
    now,              \* the instant the next datetime.now() returns
    last,             \* the last BookingService call and how it returned
    pc,               \* per caller: position inside create_booking
    req,              \* per caller: the arguments of its create_booking in flight
    stale,            \* per caller: a booking of its trainer was saved after its scan
    raced,            \* some create_booking saved on a stale scan
    call,             \* the last call on a value object and what it gave
    user_storage      \* InMemoryUserRepository._storage: user_id -> User

vars == <<client_storage, trainer_storage, booking_storage, now, last,
          pc, req, stale, raced, call, user_storage>>

conc_vars == <<pc, req, stale, raced>>

(***************************************************************************)
(* Bounds and input domains                                                *)
(***************************************************************************)
MaxClock == 3

ClientIds == {"CL1"}
TrainerIds == {"TR1", "TR2"}
BookingIds == {"BK1", "BK2"}
UserIds == ClientIds \cup TrainerIds \cup {"USR9"}
Dates == {"2025-12-20"}
Times == {9, 10, 11}
Minutes == {60}
Reasons == {"sakit"}
Callers == {"w1", "w2"}

\* what is passed to the value objects when they are exercised on their own
UserIdsDrawn == {"USR1", "USR2", "USR3"}
EmailsTried == {"ann@fit.id", "ann@FIT.id", "bob@fit.id"}
PasswordsTried ==
    {[text |-> "abc", chars |-> 3, bytes |-> 3],
     [text |-> "rahasia1", chars |-> 8, bytes |-> 8],
     [text |-> "forty two-byte characters", chars |-> 40, bytes |-> 80]}
DurationsTried == {30, 60, 120}
DatesTried == {"2025-12-20", "2025-12-21"}
TimesTried == {8, 9, 10, 11, 12}
MinutesTried == {-60, 0, 1, 29, 30, 31, 60, 90, 119, 120, 121, 150, 1000}

None == <<>>
Some(x) == <<x>>

NoId == "-"

(***************************************************************************)
(* Value objects                                                           *)
(***************************************************************************)
\* a faulty validator: an end equal to the start is let through
validate_end_after_start_equal(start_time, end_time) == ~(end_time < start_time)

\* TimeSlot.validate_end_after_start: construction fails unless end > start
validate_end_after_start(start_time, end_time) == ~(end_time <= start_time)

\* every TimeSlot that can be constructed over Dates and Times
TimeSlot ==
    {s \in [date : Dates, start_time : Times, end_time : Times] :
        validate_end_after_start(s.start_time, s.end_time)}

\* a faulty overlap test: true only when self covers other entirely
overlaps_with_covering(self, other) ==
    IF self.date # other.date
    THEN FALSE
    ELSE self.start_time <= other.start_time /\ self.end_time >= other.end_time

\* a faulty overlap test: the dates are not compared
overlaps_with_any_date(self, other) ==
    self.start_time < other.end_time /\ self.end_time > other.start_time

\* TimeSlot.overlaps_with
overlaps_with(self, other) ==
    IF self.date # other.date
    THEN FALSE
    ELSE self.start_time < other.end_time /\ self.end_time > other.start_time

\* SessionDuration: Field(ge=30, le=120)
SessionDuration == {m \in Minutes : m >= 30 /\ m <= 120}

\* TimeSlot(date=, start_time=, end_time=): the slot, or None when the
\* validator raises
new_time_slot(date, start_time, end_time) ==
    IF validate_end_after_start(start_time, end_time)
    THEN Some([date |-> date, start_time |-> start_time, end_time |-> end_time])
    ELSE None

\* a faulty duration: both limits are exclusive
new_session_duration_exclusive(minutes) ==
    IF minutes > 30 /\ minutes < 120 THEN Some(minutes) ELSE None

\* SessionDuration(minutes=): the duration, or None when the field limits
\* ge=30, le=120 reject the integer
new_session_duration(minutes) ==
    IF minutes >= 30 /\ minutes <= 120 THEN Some(minutes) ELSE None

(***************************************************************************)
(* BookingSession                                                          *)
(***************************************************************************)
PENDING == "PENDING"
CONFIRMED == "CONFIRMED"
CANCELLED == "CANCELLED"
COMPLETED == "COMPLETED"
BookingStatus == {PENDING, CONFIRMED, CANCELLED, COMPLETED}

Ok == "ok"
AuthorizationError == "AuthorizationError"
InvalidStateError == "InvalidStateError"
NotFoundClient == "NotFoundError(client)"
NotFoundTrainer == "NotFoundError(trainer)"
NotFoundBooking == "NotFoundError(booking)"
AvailabilityError == "AvailabilityError"
ConflictError == "ConflictError"

\* the outcome of a method: the error raised (or Ok) and the entity afterwards
Outcome(err, booking) == [err |-> err, booking |-> booking]

\* a faulty confirm: a CONFIRMED booking can be confirmed again
confirm_twice(self, trainer_id, at) ==
    IF self.trainer_id # trainer_id
    THEN Outcome(AuthorizationError, self)
    ELSE IF self.status \notin {PENDING, CONFIRMED}
    THEN Outcome(InvalidStateError, self)
    ELSE Outcome(Ok, [self EXCEPT !.status = CONFIRMED,
                                  !.confirmed_date = Some(at)])

\* a faulty confirm: the creation timestamp is overwritten as well
confirm_restamps_creation(self, trainer_id, at) ==
    IF self.trainer_id # trainer_id
    THEN Outcome(AuthorizationError, self)
    ELSE IF self.status # PENDING
    THEN Outcome(InvalidStateError, self)
    ELSE Outcome(Ok, [self EXCEPT !.status = CONFIRMED,
                                  !.confirmed_date = Some(at),
                                  !.booking_date = at])

\* a faulty confirm: the trainer check is missing
confirm_any_trainer(self, trainer_id, at) ==
    IF self.status # PENDING
    THEN Outcome(InvalidStateError, self)
    ELSE Outcome(Ok, [self EXCEPT !.status = CONFIRMED,
                                  !.confirmed_date = Some(at)])

\* a faulty confirm: the timestamp is written before the status check
confirm_stamps_first(self, trainer_id, at) ==
    IF self.trainer_id # trainer_id
    THEN Outcome(AuthorizationError, self)
    ELSE IF self.status # PENDING
    THEN Outcome(InvalidStateError, [self EXCEPT !.confirmed_date = Some(at)])
    ELSE Outcome(Ok, [self EXCEPT !.status = CONFIRMED,
                                  !.confirmed_date = Some(at)])

\* BookingSession.confirm; at is what datetime.now() returns
confirm(self, trainer_id, at) ==
    IF self.trainer_id # trainer_id
    THEN Outcome(AuthorizationError, self)
    ELSE IF self.status # PENDING
    THEN Outcome(InvalidStateError, self)
    ELSE Outcome(Ok, [self EXCEPT !.status = CONFIRMED,
                                  !.confirmed_date = Some(at)])

\* a faulty reject: the status is checked before the trainer
reject_status_first(self, trainer_id, reason) ==
    IF self.status # PENDING
    THEN Outcome(InvalidStateError, self)
    ELSE IF self.trainer_id # trainer_id
    THEN Outcome(AuthorizationError, self)
    ELSE Outcome(Ok, [self EXCEPT !.status = CANCELLED,
                                  !.cancellation_reason =
                                      Some("Ditolak oleh trainer: " \o reason)])

\* a faulty reject: the reason is written before the status check
reject_reason_first(self, trainer_id, reason) ==
    IF self.trainer_id # trainer_id
    THEN Outcome(AuthorizationError, self)
    ELSE IF self.status # PENDING
    THEN Outcome(InvalidStateError,
                 [self EXCEPT !.cancellation_reason =
                                  Some("Ditolak oleh trainer: " \o reason)])
    ELSE Outcome(Ok, [self EXCEPT !.status = CANCELLED,
                                  !.cancellation_reason =
                                      Some("Ditolak oleh trainer: " \o reason)])

\* a faulty reject: the reason is stored without its prefix
reject_bare_reason(self, trainer_id, reason) ==
    IF self.trainer_id # trainer_id
    THEN Outcome(AuthorizationError, self)
    ELSE IF self.status # PENDING
    THEN Outcome(InvalidStateError, self)
    ELSE Outcome(Ok, [self EXCEPT !.status = CANCELLED,
                                  !.cancellation_reason = Some(reason)])

\* BookingSession.reject
reject(self, trainer_id, reason) ==
    IF self.trainer_id # trainer_id
    THEN Outcome(AuthorizationError, self)
    ELSE IF self.status # PENDING
    THEN Outcome(InvalidStateError, self)
    ELSE Outcome(Ok, [self EXCEPT !.status = CANCELLED,
                                  !.cancellation_reason =
                                      Some("Ditolak oleh trainer: " \o reason)])

\* a faulty cancel: the reason is not recorded
cancel_without_reason(self, user_id, reason) ==
    IF self.status = COMPLETED
    THEN Outcome(InvalidStateError, self)
    ELSE IF self.status = CANCELLED
    THEN Outcome(InvalidStateError, self)
    ELSE Outcome(Ok, [self EXCEPT !.status = CANCELLED])

\* a faulty cancel: the check for COMPLETED is missing
cancel_completed(self, user_id, reason) ==
    IF self.status = CANCELLED
    THEN Outcome(InvalidStateError, self)
    ELSE Outcome(Ok, [self EXCEPT !.status = CANCELLED,
                                  !.cancellation_reason = Some(reason)])

\* a cancel that admits only the client or the trainer of the booking
cancel_party_only(self, user_id, reason) ==
    IF user_id \notin {self.client_id, self.trainer_id}
    THEN Outcome(AuthorizationError, self)
    ELSE IF self.status = COMPLETED
    THEN Outcome(InvalidStateError, self)
    ELSE IF self.status = CANCELLED
    THEN Outcome(InvalidStateError, self)
    ELSE Outcome(Ok, [self EXCEPT !.status = CANCELLED,
                                  !.cancellation_reason = Some(reason)])

\* BookingSession.cancel
cancel(self, user_id, reason) ==
    IF self.status = COMPLETED
    THEN Outcome(InvalidStateError, self)
    ELSE IF self.status = CANCELLED
    THEN Outcome(InvalidStateError, self)
    ELSE Outcome(Ok, [self EXCEPT !.status = CANCELLED,
                                  !.cancellation_reason = Some(reason)])

\* a faulty complete: the status check is missing
complete_unchecked(self) ==
    Outcome(Ok, [self EXCEPT !.status = COMPLETED])

\* a faulty complete: the status check is inverted
complete_inverted(self) ==
    IF self.status = CONFIRMED
    THEN Outcome(InvalidStateError, self)
    ELSE Outcome(Ok, [self EXCEPT !.status = COMPLETED])

\* BookingSession.complete
complete(self) ==
    IF self.status # CONFIRMED
    THEN Outcome(InvalidStateError, self)
    ELSE Outcome(Ok, [self EXCEPT !.status = COMPLETED])

(***************************************************************************)
(* Repository                                                              *)
(***************************************************************************)
\* InMemoryBookingRepository.save: _storage[booking.booking_id] = booking
save(storage, booking) ==
    [id \in DOMAIN storage \cup {booking.booking_id} |->
        IF id = booking.booking_id THEN booking ELSE storage[id]]

\* a faulty find_by_trainer_id: no filter, every booking is returned
find_by_trainer_id_all(storage, trainer_id) ==
    {storage[id] : id \in DOMAIN storage}

\* a faulty find_by_trainer_id: the filter reads the client id
find_by_trainer_id_client(storage, trainer_id) ==
    {storage[id] : id \in {i \in DOMAIN storage : storage[i].client_id = trainer_id}}

\* InMemoryBookingRepository.find_by_trainer_id
find_by_trainer_id(storage, trainer_id) ==
    {storage[id] : id \in {i \in DOMAIN storage : storage[i].trainer_id = trainer_id}}

(***************************************************************************)
(* BookingService                                                          *)
(***************************************************************************)
\* what the caller of the service sees: the call, the acting id it passed and
\* the error raised (or Ok)
Called(op, booking_id, by, result) ==
    [op |-> op, booking_id |-> booking_id, by |-> by, result |-> result]

\* a faulty overlap scan: only cancelled bookings are passed over, so a
\* completed booking still blocks its slot
create_check_completed_blocks(client_id, trainer_id, time_slot, available) ==
    IF client_id \notin client_storage
    THEN NotFoundClient
    ELSE IF trainer_id \notin trainer_storage
    THEN NotFoundTrainer
    ELSE IF ~available
    THEN AvailabilityError
    ELSE IF \E booking \in find_by_trainer_id(booking_storage, trainer_id) :
                /\ booking.status # CANCELLED
                /\ overlaps_with(booking.time_slot, time_slot)
    THEN ConflictError
    ELSE Ok

\* a faulty order of the checks: the trainer is looked up before the client
create_check_trainer_first(client_id, trainer_id, time_slot, available) ==
    IF trainer_id \notin trainer_storage
    THEN NotFoundTrainer
    ELSE IF client_id \notin client_storage
    THEN NotFoundClient
    ELSE IF ~available
    THEN AvailabilityError
    ELSE IF \E booking \in find_by_trainer_id(booking_storage, trainer_id) :
                /\ booking.status \in {PENDING, CONFIRMED}
                /\ overlaps_with(booking.time_slot, time_slot)
    THEN ConflictError
    ELSE Ok

\* create_booking, the checks before the booking is built (the first raise wins)
create_check(client_id, trainer_id, time_slot, available) ==
    IF client_id \notin client_storage
    THEN NotFoundClient
    ELSE IF trainer_id \notin trainer_storage
    THEN NotFoundTrainer
    ELSE IF ~available
    THEN AvailabilityError
    ELSE IF \E booking \in find_by_trainer_id(booking_storage, trainer_id) :
                /\ booking.status \in {PENDING, CONFIRMED}
                /\ overlaps_with(booking.time_slot, time_slot)
    THEN ConflictError
    ELSE Ok

\* create_booking, the BookingSession it builds
new_booking(booking_id, client_id, trainer_id, time_slot, duration, at) ==
    [booking_id |-> booking_id,
     client_id |-> client_id,
     trainer_id |-> trainer_id,
     time_slot |-> time_slot,
     status |-> PENDING,
     duration |-> duration,
     booking_date |-> at,
     confirmed_date |-> None,
     cancellation_reason |-> None]

\* a faulty create_booking: a duration longer than the slot is refused
create_booking_fits_duration(client_id, trainer_id, time_slot, duration, new_id, available) ==
    LET checked == create_check(client_id, trainer_id, time_slot, available)
        err == IF checked = Ok
                  /\ duration > 60 * (time_slot.end_time - time_slot.start_time)
               THEN ConflictError
               ELSE checked
    IN
    /\ IF err # Ok
       THEN /\ last' = Called("create_booking", NoId, NoId, err)
            /\ UNCHANGED <<booking_storage, now>>
       ELSE /\ now < MaxClock
            /\ booking_storage' =
                   save(booking_storage,
                        new_booking(new_id, client_id, trainer_id,
                                    time_slot, duration, now))
            /\ now' = now + 1
            /\ last' = Called("create_booking", new_id, NoId, Ok)
    /\ UNCHANGED <<client_storage, trainer_storage, conc_vars, call, user_storage>>

\* a faulty create_booking: once client and trainer are found the booking is
\* saved, and availability and conflicts are checked afterwards
create_booking_saves_first(client_id, trainer_id, time_slot, duration, new_id, available) ==
    LET err == create_check(client_id, trainer_id, time_slot, available) IN
    /\ IF err # Ok
       THEN /\ last' = Called("create_booking", NoId, NoId, err)
            /\ booking_storage' =
                   IF err \in {AvailabilityError, ConflictError}
                   THEN save(booking_storage,
                             new_booking(new_id, client_id, trainer_id,
                                         time_slot, duration, now))
                   ELSE booking_storage
            /\ UNCHANGED now
       ELSE /\ now < MaxClock
            /\ booking_storage' =
                   save(booking_storage,
                        new_booking(new_id, client_id, trainer_id,
                                    time_slot, duration, now))
            /\ now' = now + 1
            /\ last' = Called("create_booking", new_id, NoId, Ok)
    /\ UNCHANGED <<client_storage, trainer_storage, conc_vars, call, user_storage>>

\* BookingService.create_booking run without interruption; new_id is
\* "BK" + uuid4().hex[:8], available is what the scheduling API answers
create_booking(client_id, trainer_id, time_slot, duration, new_id, available) ==
    LET err == create_check(client_id, trainer_id, time_slot, available) IN
    /\ IF err # Ok
       THEN /\ last' = Called("create_booking", NoId, NoId, err)
            /\ UNCHANGED <<booking_storage, now>>
       ELSE /\ now < MaxClock
            /\ booking_storage' =
                   save(booking_storage,
                        new_booking(new_id, client_id, trainer_id,
                                    time_slot, duration, now))
            /\ now' = now + 1
            /\ last' = Called("create_booking", new_id, NoId, Ok)
    /\ UNCHANGED <<client_storage, trainer_storage, conc_vars, call, user_storage>>

\* a faulty miss: the service returns None instead of raising
not_found_silent(op, booking_id, by) ==
    /\ last' = Called(op, booking_id, by, Ok)
    /\ UNCHANGED <<client_storage, trainer_storage, booking_storage, now, conc_vars, call, user_storage>>

\* find_by_id returned None: the service raises
not_found(op, booking_id, by) ==
    /\ last' = Called(op, booking_id, by, NotFoundBooking)
    /\ UNCHANGED <<client_storage, trainer_storage, booking_storage, now, conc_vars, call, user_storage>>

\* find_by_id returned the stored object and the entity method ran on it: when
\* it raised, whatever it did to the object before raising is in the store;
\* when it returned, the service saves the object
applied(op, booking_id, by, outcome) ==
    /\ booking_storage' =
           IF outcome.err # Ok
           THEN [booking_storage EXCEPT ![booking_id] = outcome.booking]
           ELSE save(booking_storage, outcome.booking)
    /\ last' = Called(op, booking_id, by, outcome.err)
    /\ UNCHANGED <<client_storage, trainer_storage, conc_vars, call, user_storage>>

\* BookingService.confirm_booking
confirm_booking(booking_id, trainer_id) ==
    IF booking_id \notin DOMAIN booking_storage
    THEN not_found("confirm_booking", booking_id, trainer_id)
    ELSE LET outcome == confirm(booking_storage[booking_id], trainer_id, now) IN
         /\ outcome.err = Ok => now < MaxClock
         /\ applied("confirm_booking", booking_id, trainer_id, outcome)
         /\ now' = IF outcome.err = Ok THEN now + 1 ELSE now

\* BookingService.reject_booking
reject_booking(booking_id, trainer_id, reason) ==
    IF booking_id \notin DOMAIN booking_storage
    THEN not_found("reject_booking", booking_id, trainer_id)
    ELSE /\ applied("reject_booking", booking_id, trainer_id,
                    reject(booking_storage[booking_id], trainer_id, reason))
         /\ UNCHANGED now

\* BookingService.cancel_booking
cancel_booking(booking_id, user_id, reason) ==
    IF booking_id \notin DOMAIN booking_storage
    THEN not_found("cancel_booking", booking_id, user_id)
    ELSE /\ applied("cancel_booking", booking_id, user_id,
                    cancel(booking_storage[booking_id], user_id, reason))
         /\ UNCHANGED now

\* BookingService.complete_booking
complete_booking(booking_id) ==
    IF booking_id \notin DOMAIN booking_storage
    THEN not_found("complete_booking", booking_id, NoId)
    ELSE /\ applied("complete_booking", booking_id, NoId,
                    complete(booking_storage[booking_id]))
         /\ UNCHANGED now

\* BookingService.get_booking: find_by_id, the stored booking or None
get_booking(booking_id) ==
    IF booking_id \in DOMAIN booking_storage
    THEN Some(booking_storage[booking_id])
    ELSE None

\* ClientService.create_client: the client is stored under a generated id
create_client(client_id) ==
    /\ client_storage' = client_storage \cup {client_id}
    /\ UNCHANGED <<trainer_storage, booking_storage, now, last, conc_vars, call, user_storage>>

\* TrainerService.create_trainer: the trainer is stored under a generated id
create_trainer(trainer_id) ==
    /\ trainer_storage' = trainer_storage \cup {trainer_id}
    /\ UNCHANGED <<client_storage, booking_storage, now, last, conc_vars, call, user_storage>>

(***************************************************************************)
(* Specification: the service called one call at a time                    *)
(***************************************************************************)
Init ==
    /\ client_storage = {}
    /\ trainer_storage = {}
    /\ booking_storage = <<>>
    /\ now = 0
    /\ last = Called("none", NoId, NoId, Ok)
    /\ pc = [w \in Callers |-> "idle"]
    /\ req = [w \in Callers |-> None]
    /\ stale = [w \in Callers |-> FALSE]
    /\ raced = FALSE
    /\ call = None
    /\ user_storage = <<>>

CreateClient == \E c \in ClientIds : create_client(c)

CreateTrainer == \E t \in TrainerIds : create_trainer(t)

CreateBooking ==
    \E c \in ClientIds, t \in TrainerIds, s \in TimeSlot, d \in SessionDuration,
       id \in BookingIds, available \in BOOLEAN :
        create_booking(c, t, s, d, id, available)

ConfirmBooking ==
    \E id \in BookingIds, t \in TrainerIds : confirm_booking(id, t)

RejectBooking ==
    \E id \in BookingIds, t \in TrainerIds, r \in Reasons : reject_booking(id, t, r)

CancelBooking ==
    \E id \in BookingIds, u \in UserIds, r \in Reasons : cancel_booking(id, u, r)

CompleteBooking ==
    \E id \in BookingIds : complete_booking(id)

Next ==
    \/ CreateClient
    \/ CreateTrainer
    \/ CreateBooking
    \/ ConfirmBooking
    \/ RejectBooking
    \/ CancelBooking
    \/ CompleteBooking

Spec == Init /\ [][Next]_vars

(***************************************************************************)
(* Specification: create_booking called by concurrent callers.  The route  *)
(* handlers are plain functions, which the framework runs on a thread      *)
(* pool; a caller can be suspended between the overlap scan and the save.  *)
(***************************************************************************)
\* create_booking up to the end of the overlap scan
create_booking_scan(w, client_id, trainer_id, time_slot, duration, available) ==
    LET err == create_check(client_id, trainer_id, time_slot, available) IN
    /\ pc[w] = "idle"
    /\ IF err # Ok
       THEN /\ last' = Called("create_booking", NoId, NoId, err)
            /\ UNCHANGED <<pc, req, stale>>
       ELSE /\ pc' = [pc EXCEPT ![w] = "scanned"]
            /\ req' = [req EXCEPT ![w] = Some([client_id |-> client_id,
                                               trainer_id |-> trainer_id,
                                               time_slot |-> time_slot,
                                               duration |-> duration])]
            /\ stale' = [stale EXCEPT ![w] = FALSE]
            /\ UNCHANGED last
    /\ UNCHANGED <<client_storage, trainer_storage, booking_storage, now, raced, call, user_storage>>

\* create_booking from the new identifier to the save
create_booking_save(w, new_id) ==
    /\ pc[w] = "scanned"
    /\ now < MaxClock
    /\ LET r == req[w][1] IN
        /\ booking_storage' =
               save(booking_storage,
                    new_booking(new_id, r.client_id, r.trainer_id,
                                r.time_slot, r.duration, now))
        /\ stale' = [v \in Callers |->
                        IF v = w THEN FALSE
                        ELSE IF pc[v] = "scanned" /\ req[v][1].trainer_id = r.trainer_id
                        THEN TRUE
                        ELSE stale[v]]
    /\ raced' = (raced \/ stale[w])
    /\ now' = now + 1
    /\ last' = Called("create_booking", new_id, NoId, Ok)
    /\ pc' = [pc EXCEPT ![w] = "idle"]
    /\ req' = [req EXCEPT ![w] = None]
    /\ UNCHANGED <<client_storage, trainer_storage, call, user_storage>>

CreateBookingScan ==
    \E w \in Callers, c \in ClientIds, t \in TrainerIds, s \in TimeSlot,
       d \in SessionDuration, available \in BOOLEAN :
        create_booking_scan(w, c, t, s, d, available)

CreateBookingSave ==
    \E w \in Callers, id \in BookingIds : create_booking_save(w, id)

NextConc ==
    \/ CreateClient
    \/ CreateTrainer
    \/ CreateBookingScan
    \/ CreateBookingSave

SpecConc == Init /\ [][NextConc]_vars

(***************************************************************************)
(* Specification: the value objects exercised on their own                 *)
(***************************************************************************)
\* every TimeSlot that can be constructed over DatesTried and TimesTried
SlotsTried ==
    {s \in [date : DatesTried, start_time : TimesTried, end_time : TimesTried] :
        new_time_slot(s.date, s.start_time, s.end_time) # None}

\* a call on a value object leaves its name, its arguments and its result
ValueCall(op, args, result) == [op |-> op, args |-> args, result |-> result]

service_vars ==
    <<client_storage, trainer_storage, booking_storage, now, last, user_storage>>

construct_time_slot(date, start_time, end_time) ==
    /\ call' = Some(ValueCall("TimeSlot", <<date, start_time, end_time>>,
                              new_time_slot(date, start_time, end_time)))
    /\ UNCHANGED <<service_vars, conc_vars>>

call_overlaps_with(self, other) ==
    /\ call' = Some(ValueCall("overlaps_with", <<self, other>>,
                              overlaps_with(self, other)))
    /\ UNCHANGED <<service_vars, conc_vars>>

construct_session_duration(minutes) ==
    /\ call' = Some(ValueCall("SessionDuration", <<minutes>>,
                              new_session_duration(minutes)))
    /\ UNCHANGED <<service_vars, conc_vars>>

ConstructTimeSlot ==
    \E d \in DatesTried, s \in TimesTried, e \in TimesTried :
        construct_time_slot(d, s, e)

CallOverlapsWith ==
    \E self \in SlotsTried, other \in SlotsTried : call_overlaps_with(self, other)

ConstructSessionDuration ==
    \E m \in MinutesTried : construct_session_duration(m)

NextValues ==
    \/ ConstructTimeSlot
    \/ CallOverlapsWith
    \/ ConstructSessionDuration

SpecValues == Init /\ [][NextValues]_vars

(***************************************************************************)
(* Specification: bookings created with every kind of valid duration       *)
(***************************************************************************)
CreateBookingOfDuration ==
    \E c \in ClientIds, t \in TrainerIds, s \in TimeSlot,
       d \in {m \in DurationsTried : new_session_duration(m) # None},
       id \in BookingIds, available \in BOOLEAN :
        create_booking(c, t, s, d, id, available)

NextDuration ==
    \/ CreateClient
    \/ CreateTrainer
    \/ CreateBookingOfDuration

SpecDuration == Init /\ [][NextDuration]_vars

(***************************************************************************)
(* User accounts: /auth/register and /auth/login                           *)
(***************************************************************************)
UserRole == {"CLIENT", "TRAINER", "ADMIN"}

Http200 == "200"
Http201 == "201"
Http400 == "400"
Http401 == "401"
Http403 == "403"
Http404 == "404"

booking_vars == <<client_storage, trainer_storage, booking_storage, now>>

\* EmailStr: the address as the validator hands it on, the domain part in
\* lower case and the local part as typed
EmailStr(email) == IF email = "ann@FIT.id" THEN "ann@fit.id" ELSE email

\* get_password_hash (the salt is left out)
get_password_hash(password) == "bcrypt(" \o password.text \o ")"

\* verify_password
verify_password(plain_password, hashed_password) ==
    hashed_password = get_password_hash(plain_password)

\* InMemoryUserRepository.save: _storage[user.user_id] = user
save_user(storage, user) ==
    [id \in DOMAIN storage \cup {user.user_id} |->
        IF id = user.user_id THEN user ELSE storage[id]]

\* InMemoryUserRepository.find_by_email: a stored user with that email, or None
find_by_email(storage, email) ==
    LET found == {id \in DOMAIN storage : storage[id].email = email} IN
    IF found = {} THEN None ELSE Some(storage[CHOOSE id \in found : TRUE])

\* InMemoryUserRepository.find_by_id
find_user_by_id(storage, user_id) ==
    IF user_id \in DOMAIN storage THEN Some(storage[user_id]) ELSE None

\* a faulty register: the lookup is made with the address as typed
register_raw_lookup(email, password, role, new_id) ==
    /\ IF \/ password.chars < 6
          \/ password.bytes > 72
          \/ find_by_email(user_storage, email) # None
       THEN /\ last' = Called("register", NoId, EmailStr(email), Http400)
            /\ UNCHANGED user_storage
       ELSE /\ user_storage' =
                   save_user(user_storage,
                             [user_id |-> new_id,
                              email |-> EmailStr(email),
                              hashed_password |-> get_password_hash(password),
                              role |-> role,
                              is_active |-> TRUE])
            /\ last' = Called("register", new_id, EmailStr(email), Http201)
    /\ UNCHANGED <<booking_vars, conc_vars, call>>

\* POST /auth/register; new_id is "USR" + uuid4().hex[:8].  The call leaves
\* the validated address in last.by
register(email, password, role, new_id) ==
    /\ IF \/ password.chars < 6
          \/ password.bytes > 72
          \/ find_by_email(user_storage, EmailStr(email)) # None
       THEN /\ last' = Called("register", NoId, EmailStr(email), Http400)
            /\ UNCHANGED user_storage
       ELSE /\ user_storage' =
                   save_user(user_storage,
                             [user_id |-> new_id,
                              email |-> EmailStr(email),
                              hashed_password |-> get_password_hash(password),
                              role |-> role,
                              is_active |-> TRUE])
            /\ last' = Called("register", new_id, EmailStr(email), Http201)
    /\ UNCHANGED <<booking_vars, conc_vars, call>>

\* POST /auth/login: the form's username is looked up as typed
login(username, password) ==
    LET user == find_by_email(user_storage, username) IN
    /\ last' =
           IF user = None
           THEN Called("login", NoId, username, Http401)
           ELSE IF ~verify_password(password, user[1].hashed_password)
           THEN Called("login", NoId, username, Http401)
           ELSE IF ~user[1].is_active
           THEN Called("login", NoId, username, Http403)
           ELSE Called("login", user[1].user_id, username, Http200)
    /\ UNCHANGED <<booking_vars, user_storage, conc_vars, call>>

Register ==
    \E email \in EmailsTried, password \in PasswordsTried, role \in UserRole,
       id \in UserIdsDrawn :
        register(email, password, role, id)

Login ==
    \E username \in EmailsTried, password \in PasswordsTried :
        login(username, password)

NextAuth ==
    \/ Register
    \/ Login

SpecAuth == Init /\ [][NextAuth]_vars

(***************************************************************************)
(* The /bookings routes behind get_current_active_user                     *)
(***************************************************************************)
\* a bearer token as the server sees it: whether the signature verifies
\* under SECRET_KEY, whether exp has passed, and the "sub" entry
TokensTried ==
    {[signed |-> FALSE, expired |-> FALSE, sub |-> Some("USR1")],
     [signed |-> TRUE, expired |-> TRUE, sub |-> Some("USR1")],
     [signed |-> TRUE, expired |-> FALSE, sub |-> None]}
    \cup {[signed |-> TRUE, expired |-> FALSE, sub |-> Some(id)] :
            id \in UserIdsDrawn}

\* the Authorization header: absent, or a token
BearersTried == {None} \cup {Some(token) : token \in TokensTried}

\* the accounts the routes are called with, one of each role
AccountsTried ==
    {[user_id |-> "USR1", email |-> "ann@fit.id", role |-> "CLIENT"],
     [user_id |-> "USR2", email |-> "bob@fit.id", role |-> "TRAINER"],
     [user_id |-> "USR3", email |-> "cik@fit.id", role |-> "ADMIN"]}

\* the account that is seen deactivated
DeactivatedTried == {"USR1"}

HttpBookingIds == {"BK1"}
HttpTrainerIds == {"TR1"}
HttpTimes == {9, 10}
HttpMinutes == {60}
HttpUserIds == ClientIds \cup HttpTrainerIds \cup {"USR9"}

Denied(status) == [status |-> status, user |-> None]
Granted(user) == [status |-> Http200, user |-> Some(user)]

\* a faulty decoder: exp is not looked at
decode_access_token_any_age(token) ==
    IF token.signed THEN Some([sub |-> token.sub]) ELSE None

\* decode_access_token: the payload, or None on a JWTError
decode_access_token(token) ==
    IF token.signed /\ ~token.expired THEN Some([sub |-> token.sub]) ELSE None

\* get_current_user, entered through oauth2_scheme
get_current_user(bearer) ==
    IF bearer = None
    THEN Denied(Http401)
    ELSE LET payload == decode_access_token(bearer[1]) IN
         IF payload = None
         THEN Denied(Http401)
         ELSE IF payload[1].sub = None
         THEN Denied(Http401)
         ELSE LET user == find_user_by_id(user_storage, payload[1].sub[1]) IN
              IF user = None
              THEN Denied(Http401)
              ELSE IF ~user[1].is_active
              THEN Denied(Http403)
              ELSE Granted(user[1])

\* get_current_active_user
get_current_active_user(bearer) ==
    LET current_user == get_current_user(bearer) IN
    IF current_user.user # None /\ ~current_user.user[1].is_active
    THEN Denied(Http403)
    ELSE current_user

\* the dependency raised: the handler body does not run
refused(status) ==
    /\ last' = Called("get_current_active_user", NoId, NoId, status)
    /\ UNCHANGED <<booking_vars, user_storage, conc_vars, call>>

\* a handler that read nothing but the store answered
answered(op, booking_id, by, status) ==
    /\ last' = Called(op, booking_id, by, status)
    /\ UNCHANGED <<booking_vars, user_storage, conc_vars, call>>

\* POST /bookings/
http_create_booking(bearer, client_id, trainer_id, date, start_time, end_time, duration_minutes, new_id, available) ==
    LET current_user == get_current_active_user(bearer)
        time_slot == new_time_slot(date, start_time, end_time)
        duration == new_session_duration(duration_minutes)
    IN  IF current_user.user = None
        THEN refused(current_user.status)
        ELSE IF time_slot = None \/ duration = None
        THEN answered("POST /bookings/", NoId, NoId, Http400)
        ELSE /\ create_booking(client_id, trainer_id, time_slot[1],
                               duration[1], new_id, available)
             /\ UNCHANGED user_storage

\* GET /bookings/
http_get_all_bookings(bearer) ==
    LET current_user == get_current_active_user(bearer) IN
    IF current_user.user = None
    THEN refused(current_user.status)
    ELSE answered("get_all_bookings", NoId, NoId, Http200)

\* GET /bookings/{booking_id}
http_get_booking(bearer, booking_id) ==
    LET current_user == get_current_active_user(bearer) IN
    IF current_user.user = None
    THEN refused(current_user.status)
    ELSE IF get_booking(booking_id) = None
    THEN answered("get_booking", booking_id, NoId, Http404)
    ELSE answered("get_booking", booking_id, NoId, Http200)

\* a faulty handler: the trainer is the authenticated user
http_confirm_booking_as_user(bearer, booking_id, trainer_id) ==
    LET current_user == get_current_active_user(bearer) IN
    IF current_user.user = None
    THEN refused(current_user.status)
    ELSE confirm_booking(booking_id, current_user.user[1].user_id)

\* POST /bookings/{booking_id}/confirm
http_confirm_booking(bearer, booking_id, trainer_id) ==
    LET current_user == get_current_active_user(bearer) IN
    IF current_user.user = None
    THEN refused(current_user.status)
    ELSE confirm_booking(booking_id, trainer_id)

\* POST /bookings/{booking_id}/reject
http_reject_booking(bearer, booking_id, trainer_id, reason) ==
    LET current_user == get_current_active_user(bearer) IN
    IF current_user.user = None
    THEN refused(current_user.status)
    ELSE reject_booking(booking_id, trainer_id, reason)

\* POST /bookings/{booking_id}/cancel
http_cancel_booking(bearer, booking_id, user_id, reason) ==
    LET current_user == get_current_active_user(bearer) IN
    IF current_user.user = None
    THEN refused(current_user.status)
    ELSE cancel_booking(booking_id, user_id, reason)

\* POST /bookings/{booking_id}/complete
http_complete_booking(bearer, booking_id) ==
    LET current_user == get_current_active_user(bearer) IN
    IF current_user.user = None
    THEN refused(current_user.status)
    ELSE complete_booking(booking_id)

\* GET /bookings/client/{client_id}
http_get_bookings_by_client(bearer, client_id) ==
    LET current_user == get_current_active_user(bearer) IN
    IF current_user.user = None
    THEN refused(current_user.status)
    ELSE answered("get_bookings_by_client", NoId, client_id, Http200)

\* GET /bookings/trainer/{trainer_id}
http_get_bookings_by_trainer(bearer, trainer_id) ==
    LET current_user == get_current_active_user(bearer) IN
    IF current_user.user = None
    THEN refused(current_user.status)
    ELSE answered("get_bookings_by_trainer", NoId, trainer_id, Http200)

\* POST /auth/register with a sound password; each id comes with its address
RegisterUser ==
    \E account \in AccountsTried :
        register(account.email,
                 [text |-> "rahasia1", chars |-> 8, bytes |-> 8],
                 account.role, account.user_id)

\* POST /trainers/ for the one trainer the bookings are made with
CreateHttpTrainer == \E id \in HttpTrainerIds : create_trainer(id)

\* InMemoryUserRepository.save of a stored user with is_active = False; no
\* route does this, the repository and the entity allow it
SaveInactiveUser ==
    \E id \in DOMAIN user_storage \cap DeactivatedTried :
        /\ user_storage[id].is_active
        /\ user_storage' =
               save_user(user_storage,
                         [user_storage[id] EXCEPT !.is_active = FALSE])
        /\ UNCHANGED <<booking_vars, last, conc_vars, call>>

HttpCreateBooking ==
    \E bearer \in BearersTried, c \in ClientIds, t \in HttpTrainerIds,
       date \in Dates, start_time \in {9}, end_time \in HttpTimes,
       minutes \in HttpMinutes, id \in HttpBookingIds, available \in BOOLEAN :
        http_create_booking(bearer, c, t, date, start_time, end_time, minutes,
                            id, available)

HttpGetAllBookings ==
    \E bearer \in BearersTried : http_get_all_bookings(bearer)

HttpGetBooking ==
    \E bearer \in BearersTried, id \in HttpBookingIds :
        http_get_booking(bearer, id)

HttpConfirmBooking ==
    \E bearer \in BearersTried, id \in HttpBookingIds, t \in TrainerIds :
        http_confirm_booking(bearer, id, t)

HttpRejectBooking ==
    \E bearer \in BearersTried, id \in HttpBookingIds, t \in TrainerIds,
       reason \in Reasons :
        http_reject_booking(bearer, id, t, reason)

HttpCancelBooking ==
    \E bearer \in BearersTried, id \in HttpBookingIds, u \in HttpUserIds,
       reason \in Reasons :
        http_cancel_booking(bearer, id, u, reason)

HttpCompleteBooking ==
    \E bearer \in BearersTried, id \in HttpBookingIds :
        http_complete_booking(bearer, id)

HttpGetBookingsByClient ==
    \E bearer \in BearersTried, c \in ClientIds :
        http_get_bookings_by_client(bearer, c)

HttpGetBookingsByTrainer ==
    \E bearer \in BearersTried, t \in TrainerIds :
        http_get_bookings_by_trainer(bearer, t)

NextHttp ==
    \/ CreateClient
    \/ CreateHttpTrainer
    \/ RegisterUser
    \/ SaveInactiveUser
    \/ HttpCreateBooking
    \/ HttpGetAllBookings
    \/ HttpGetBooking
    \/ HttpConfirmBooking
    \/ HttpRejectBooking
    \/ HttpCancelBooking
    \/ HttpCompleteBooking
    \/ HttpGetBookingsByClient
    \/ HttpGetBookingsByTrainer

SpecHttp == Init /\ [][NextHttp]_vars

(***************************************************************************)
(* Properties                                                              *)
(***************************************************************************)
Active(booking) == booking.status \in {PENDING, CONFIRMED}

\* two distinct stored bookings of one trainer, both active, slots overlapping
DoubleBooked(storage) ==
    \E a, b \in DOMAIN storage :
        /\ a # b
        /\ storage[a].trainer_id = storage[b].trainer_id
        /\ Active(storage[a])
        /\ Active(storage[b])
        /\ overlaps_with(storage[a].time_slot, storage[b].time_slot)

\* C1: with the service called one call at a time from empty stores, no two
\* distinct stored bookings of the same trainer are both active (PENDING or
\* CONFIRMED) with overlapping time slots.
C1_NoDoubleBooking == ~DoubleBooked(booking_storage)

\* two active bookings of one trainer are stored side by side and a third
\* request for that trainer has just been turned down for overlapping
C1_Witness ==
    /\ \E a, b \in DOMAIN booking_storage :
        /\ a # b
        /\ booking_storage[a].trainer_id = booking_storage[b].trainer_id
        /\ Active(booking_storage[a])
        /\ Active(booking_storage[b])
    /\ last.op = "create_booking"
    /\ last.result = ConflictError

\* C2: (a) as long as no create_booking has saved on a stale scan (no booking
\* of its trainer was saved between its scan and its save, which is what one
\* critical section per trainer guarantees), no double booking is stored under
\* any interleaving; (b) the save that follows a scan never fails and never
\* looks at the store again: when another caller has meanwhile saved an active
\* overlapping booking of the trainer under another identifier, the save still
\* succeeds and the store then holds two overlapping active bookings.
C2_RaceBreaksNoDoubleBooking ==
    /\ [](~raced => ~DoubleBooked(booking_storage))
    /\ [][\A w \in Callers, id \in BookingIds :
            create_booking_save(w, id) =>
                /\ last'.result = Ok
                /\ id \in DOMAIN booking_storage'
                /\ Active(booking_storage'[id])
                /\ (\E b \in DOMAIN booking_storage \ {id} :
                        /\ Active(booking_storage[b])
                        /\ booking_storage[b].trainer_id = req[w][1].trainer_id
                        /\ overlaps_with(booking_storage[b].time_slot,
                                         req[w][1].time_slot))
                   => DoubleBooked(booking_storage')]_vars

\* two callers scanned before either saved, both saves succeeded, and the store
\* holds two overlapping active bookings of one trainer
C2_Witness ==
    /\ raced
    /\ DoubleBooked(booking_storage)
    /\ last.op = "create_booking"
    /\ last.result = Ok

\* a step of one of the four lifecycle calls; the call leaves its name, its
\* booking id and its acting id in last
ConfirmStep ==
    /\ last'.op = "confirm_booking"
    /\ confirm_booking(last'.booking_id, last'.by)

RejectStep ==
    /\ last'.op = "reject_booking"
    /\ \E r \in Reasons : reject_booking(last'.booking_id, last'.by, r)

CancelStep ==
    /\ last'.op = "cancel_booking"
    /\ \E r \in Reasons : cancel_booking(last'.booking_id, last'.by, r)

CompleteStep ==
    /\ last'.op = "complete_booking"
    /\ complete_booking(last'.booking_id)

TransitionStep == ConfirmStep \/ RejectStep \/ CancelStep \/ CompleteStep

Terminal(booking) == booking.status \in {COMPLETED, CANCELLED}

\* C3: in every step of confirm/reject/cancel/complete the status of every
\* stored booking is unchanged or moves along the edge that belongs to the
\* call: confirm PENDING->CONFIRMED, reject PENDING->CANCELLED, cancel
\* PENDING->CANCELLED or CONFIRMED->CANCELLED, complete CONFIRMED->COMPLETED.
C3_StatusEdges ==
    [][TransitionStep =>
        /\ DOMAIN booking_storage' = DOMAIN booking_storage
        /\ \A id \in DOMAIN booking_storage :
            LET before == booking_storage[id].status
                after == booking_storage'[id].status
            IN  \/ after = before
                \/ ConfirmStep /\ before = PENDING /\ after = CONFIRMED
                \/ RejectStep /\ before = PENDING /\ after = CANCELLED
                \/ CancelStep /\ before \in {PENDING, CONFIRMED}
                              /\ after = CANCELLED
                \/ CompleteStep /\ before = CONFIRMED /\ after = COMPLETED]_vars

\* a confirmed booking has just been cancelled (the edge CONFIRMED->CANCELLED)
C3_Witness ==
    /\ last.op = "cancel_booking"
    /\ last.result = Ok
    /\ last.booking_id \in DOMAIN booking_storage
    /\ booking_storage[last.booking_id].status = CANCELLED
    /\ booking_storage[last.booking_id].confirmed_date # None

\* C4: once a booking is COMPLETED or CANCELLED, every confirm, reject, cancel
\* and complete call on it, with any trainer id, user id or reason, fails, and
\* no such call (on it or on another booking) changes its status.
C4_Terminal ==
    [][TransitionStep =>
        \A id \in DOMAIN booking_storage :
            Terminal(booking_storage[id]) =>
                /\ id \in DOMAIN booking_storage'
                /\ booking_storage'[id].status = booking_storage[id].status
                /\ last'.booking_id = id
                    => last'.result \in {AuthorizationError, InvalidStateError}]_vars

\* a cancel call on a COMPLETED booking has just failed
C4_Witness ==
    /\ last.op = "cancel_booking"
    /\ last.result = InvalidStateError
    /\ last.booking_id \in DOMAIN booking_storage
    /\ booking_storage[last.booking_id].status = COMPLETED

\* C5: confirm by acting trainer t succeeds iff t is the booking's trainer and
\* the status is PENDING; on success the status is CONFIRMED and the
\* confirmation timestamp is set; another trainer id gets the authorization
\* error, the booking's own trainer on a status other than PENDING the
\* invalid-state error.
C5_Confirm ==
    [][last'.op = "confirm_booking" =>
       \A id \in DOMAIN booking_storage, t \in TrainerIds :
        confirm_booking(id, t) =>
            LET b == booking_storage[id] IN
            /\ last'.result = Ok <=> (t = b.trainer_id /\ b.status = PENDING)
            /\ last'.result = Ok =>
                /\ booking_storage'[id].status = CONFIRMED
                /\ booking_storage'[id].confirmed_date # None
            /\ t # b.trainer_id => last'.result = AuthorizationError
            /\ (t = b.trainer_id /\ b.status # PENDING)
                => last'.result = InvalidStateError]_vars

\* a confirm by the booking's trainer has just succeeded
C5_Witness ==
    /\ last.op = "confirm_booking"
    /\ last.result = Ok
    /\ last.booking_id \in DOMAIN booking_storage
    /\ last.by = booking_storage[last.booking_id].trainer_id
    /\ booking_storage[last.booking_id].status = CONFIRMED
    /\ booking_storage[last.booking_id].confirmed_date # None

\* C6: a confirm, reject, cancel or complete call that fails leaves every
\* attribute of the booking (and of every other stored booking) as it was.
C6_FailureChangesNothing ==
    [][(TransitionStep /\ last'.result # Ok)
        => booking_storage' = booking_storage]_vars

\* a reject by another trainer has just failed on a PENDING booking
C6_Witness ==
    /\ last.op = "reject_booking"
    /\ last.result = AuthorizationError
    /\ last.booking_id \in DOMAIN booking_storage
    /\ booking_storage[last.booking_id].status = PENDING
    /\ booking_storage[last.booking_id].cancellation_reason = None

\* what C7 says of reject, for a given prefix of the stored reason
RejectContract(prefix) ==
    last'.op = "reject_booking" =>
    \A id \in DOMAIN booking_storage, t \in TrainerIds, r \in Reasons :
        reject_booking(id, t, r) =>
            LET b == booking_storage[id] IN
            /\ last'.result = Ok <=> (t = b.trainer_id /\ b.status = PENDING)
            /\ last'.result = Ok =>
                /\ booking_storage'[id].status = CANCELLED
                /\ booking_storage'[id].cancellation_reason = Some(prefix \o r)

\* C7 as stated: reject succeeds iff the acting trainer is the booking's and
\* the status is PENDING; on success the status is CANCELLED and the
\* cancellation reason is "Rejected by trainer: " followed by the reason.
C7_RejectedByTrainer == [][RejectContract("Rejected by trainer: ")]_vars

\* C7 amended: the same, the cancellation reason being "Ditolak oleh trainer: "
\* followed by the reason.
C7_DitolakOlehTrainer == [][RejectContract("Ditolak oleh trainer: ")]_vars

\* a reject by the booking's trainer has just succeeded
C7_Witness ==
    /\ last.op = "reject_booking"
    /\ last.result = Ok
    /\ last.booking_id \in DOMAIN booking_storage
    /\ last.by = booking_storage[last.booking_id].trainer_id
    /\ booking_storage[last.booking_id].status = CANCELLED
    /\ \E r \in Reasons :
        booking_storage[last.booking_id].cancellation_reason
            = Some("Ditolak oleh trainer: " \o r)

\* C8: cancel fails exactly when the status is COMPLETED or CANCELLED; from
\* PENDING or CONFIRMED it succeeds for every acting user id, and the booking
\* it leaves (status CANCELLED, the reason verbatim, the rest untouched) is
\* the one every other acting user id would have left.
C8_CancelAnyUser ==
    [][last'.op = "cancel_booking" =>
       \A id \in DOMAIN booking_storage, u \in UserIds, r \in Reasons :
        cancel_booking(id, u, r) =>
            LET b == booking_storage[id] IN
            /\ last'.result # Ok <=> Terminal(b)
            /\ last'.result = Ok =>
                booking_storage'[id] =
                    [b EXCEPT !.status = CANCELLED,
                              !.cancellation_reason = Some(r)]
            /\ \A v \in UserIds :
                /\ cancel(b, v, r).err = last'.result
                /\ cancel(b, v, r).booking = booking_storage'[id]]_vars

\* a cancel by an id that is neither the client nor the trainer of the
\* booking has just succeeded
C8_Witness ==
    /\ last.op = "cancel_booking"
    /\ last.result = Ok
    /\ last.booking_id \in DOMAIN booking_storage
    /\ last.by # booking_storage[last.booking_id].client_id
    /\ last.by # booking_storage[last.booking_id].trainer_id
    /\ booking_storage[last.booking_id].status = CANCELLED
    /\ booking_storage[last.booking_id].cancellation_reason \in
            {Some(r) : r \in Reasons}

\* C9: complete succeeds iff the status is CONFIRMED; on success the status is
\* COMPLETED; from PENDING, CANCELLED or COMPLETED it fails with the
\* invalid-state error; and a COMPLETED booking always carries the
\* confirmation timestamp that only a confirm by its own trainer sets.
C9_Complete ==
    /\ [](\A id \in DOMAIN booking_storage :
            booking_storage[id].status = COMPLETED
                => booking_storage[id].confirmed_date # None)
    /\ [][\A id \in DOMAIN booking_storage :
            complete_booking(id) =>
                LET b == booking_storage[id] IN
                /\ last'.result = Ok <=> b.status = CONFIRMED
                /\ last'.result = Ok => booking_storage'[id].status = COMPLETED
                /\ b.status \in {PENDING, CANCELLED, COMPLETED}
                    => last'.result = InvalidStateError]_vars

\* a complete call has just succeeded
C9_Witness ==
    /\ last.op = "complete_booking"
    /\ last.result = Ok
    /\ last.booking_id \in DOMAIN booking_storage
    /\ booking_storage[last.booking_id].status = COMPLETED

\* C10: once set, the confirmation timestamp of a booking is changed by no
\* confirm, reject, cancel or complete call, successful or failed; a confirm
\* on a CONFIRMED booking fails, with the invalid-state error when the acting
\* trainer is the booking's own.
C10_ConfirmedDateWriteOnce ==
    [][/\ TransitionStep =>
            \A id \in DOMAIN booking_storage :
                booking_storage[id].confirmed_date # None =>
                    /\ id \in DOMAIN booking_storage'
                    /\ booking_storage'[id].confirmed_date
                        = booking_storage[id].confirmed_date
       /\ last'.op = "confirm_booking" =>
          \A id \in DOMAIN booking_storage, t \in TrainerIds :
            (confirm_booking(id, t) /\ booking_storage[id].status = CONFIRMED) =>
                /\ last'.result # Ok
                /\ t = booking_storage[id].trainer_id
                    => last'.result = InvalidStateError]_vars

\* a second confirm by the booking's trainer has just failed, later than the
\* instant the first confirmation recorded
C10_Witness ==
    /\ last.op = "confirm_booking"
    /\ last.result = InvalidStateError
    /\ last.booking_id \in DOMAIN booking_storage
    /\ booking_storage[last.booking_id].status = CONFIRMED
    /\ booking_storage[last.booking_id].confirmed_date # None
    /\ booking_storage[last.booking_id].confirmed_date[1] < now

\* the request slot overlaps an active booking of the trainer
Conflicting(trainer_id, time_slot) ==
    \E id \in DOMAIN booking_storage :
        /\ booking_storage[id].trainer_id = trainer_id
        /\ Active(booking_storage[id])
        /\ overlaps_with(booking_storage[id].time_slot, time_slot)

\* the identifier a create_booking step can have drawn: the one it returned; a
\* failing call draws none, and one identifier stands for all of them
IdDrawn ==
    IF last'.booking_id \in BookingIds
    THEN {last'.booking_id}
    ELSE {CHOOSE id \in BookingIds : TRUE}

\* C11: create_booking checks, in this order, that the client exists, that the
\* trainer exists, that the scheduling API reports the trainer available, and
\* that no active booking of the trainer overlaps the slot.  The first failing
\* check decides the error: an unknown client gives the client not-found error
\* whatever the trainer id; a known client with an unknown trainer gives the
\* trainer not-found error; an unavailable trainer gives the availability
\* error even when the slot also overlaps an active booking; and the call
\* succeeds exactly when all four checks pass.
C11_CheckOrder ==
    [][last'.op = "create_booking" =>
       \A c \in ClientIds, t \in TrainerIds, s \in TimeSlot, d \in SessionDuration,
          id \in IdDrawn, available \in BOOLEAN :
          create_booking(c, t, s, d, id, available) =>
              /\ c \notin client_storage => last'.result = NotFoundClient
              /\ c \in client_storage /\ t \notin trainer_storage
                     => last'.result = NotFoundTrainer
              /\ c \in client_storage /\ t \in trainer_storage /\ ~available
                     => last'.result = AvailabilityError
              /\ c \in client_storage /\ t \in trainer_storage /\ available
                     /\ Conflicting(t, s)
                     => last'.result = ConflictError
              /\ last'.result = Ok <=>
                     /\ c \in client_storage
                     /\ t \in trainer_storage
                     /\ available
                     /\ ~Conflicting(t, s)]_vars

\* create_booking has just failed with the availability error while the only
\* registered trainer holds an active booking from the first to the last hour,
\* which every slot overlaps: the availability check came before the conflict
C11_Witness ==
    /\ last.op = "create_booking"
    /\ last.result = AvailabilityError
    /\ trainer_storage = {"TR1"}
    /\ \E id \in DOMAIN booking_storage :
           /\ booking_storage[id].trainer_id = "TR1"
           /\ Active(booking_storage[id])
           /\ \A s \in TimeSlot : overlaps_with(booking_storage[id].time_slot, s)

\* C12: a create_booking call that fails, whichever check failed, leaves the
\* booking store and the client and trainer stores as they were: no booking is
\* added, none is changed.  (Stated contrapositively: a step after which the
\* last call is a failed create_booking either changed no store or was not a
\* create_booking.)
C12_FailedCreateChangesNothing ==
    [][last'.op = "create_booking" /\ last'.result # Ok =>
          \/ /\ booking_storage' = booking_storage
             /\ client_storage' = client_storage
             /\ trainer_storage' = trainer_storage
          \/ ~CreateBooking]_vars

\* create_booking has just failed on a conflict with the one stored booking,
\* which is still PENDING
C12_Witness ==
    /\ last.op = "create_booking"
    /\ last.result = ConflictError
    /\ Cardinality(DOMAIN booking_storage) = 1
    /\ \A id \in DOMAIN booking_storage : booking_storage[id].status = PENDING

\* a successful create_booking step stores, under the identifier it returns, a
\* PENDING booking made of exactly the arguments, with no confirmation
\* timestamp and no cancellation reason, and get_booking then returns it
StoredAsAsked ==
    last'.op = "create_booking" /\ last'.result = Ok =>
       \A c \in ClientIds, t \in TrainerIds, s \in TimeSlot, d \in SessionDuration,
          id \in IdDrawn, available \in BOOLEAN :
          create_booking(c, t, s, d, id, available) =>
              /\ id = last'.booking_id
              /\ get_booking(id)' # None
              /\ LET booking == get_booking(id)'[1] IN
                     /\ booking.booking_id = id
                     /\ booking.status = PENDING
                     /\ booking.client_id = c
                     /\ booking.trainer_id = t
                     /\ booking.time_slot = s
                     /\ booking.duration = d
                     /\ booking.confirmed_date = None
                     /\ booking.cancellation_reason = None

\* what makes a stored booking that booking: everything but the three fields
\* the lifecycle calls write
Identity(booking) ==
    <<booking.booking_id, booking.client_id, booking.trainer_id,
      booking.time_slot, booking.duration, booking.booking_date>>

\* get_booking goes on returning the booking it returned before
KeptUnderItsId ==
    \A id \in DOMAIN booking_storage :
        /\ get_booking(id)' # None
        /\ Identity(get_booking(id)'[1]) = Identity(booking_storage[id])

\* C13 (the part about the call itself): a successful create_booking stores
\* and returns a PENDING booking with exactly the arguments and both optional
\* fields unset, which get_booking returns right afterwards.
C13_StoredAsAsked == [][StoredAsAsked]_vars

\* C13: a successful create_booking stores and returns a PENDING booking with
\* exactly the client, trainer, slot and duration passed and with confirmation
\* timestamp and cancellation reason unset, and every later get_booking with
\* the returned identifier returns that booking.
C13_StoredAndReturnedLater == [][StoredAsAsked /\ KeptUnderItsId]_vars

\* C14: booking identifiers are unique: a successful create_booking draws an
\* identifier that no stored booking has, so the store grows by exactly one
\* booking and every booking stored before is still there, unaltered.
C14_UniqueIds ==
    [][last'.op = "create_booking" /\ last'.result = Ok /\ CreateBooking =>
          /\ last'.booking_id \notin DOMAIN booking_storage
          /\ Cardinality(DOMAIN booking_storage') =
                 Cardinality(DOMAIN booking_storage) + 1
          /\ \A id \in DOMAIN booking_storage :
                 /\ id \in DOMAIN booking_storage'
                 /\ booking_storage'[id] = booking_storage[id]]_vars

\* C15: inactive bookings never block.  When a trainer has a CANCELLED
\* (cancelled or rejected) or COMPLETED booking, a create_booking for that
\* trainer with the same or an overlapping slot succeeds, provided client and
\* trainer exist, the trainer is reported available and no active booking of
\* the trainer overlaps the slot.
C15_InactiveNeverBlocks ==
    [][last'.op = "create_booking" =>
       \A c \in ClientIds, t \in TrainerIds, s \in TimeSlot, d \in SessionDuration,
          id \in IdDrawn, available \in BOOLEAN :
          /\ c \in client_storage
          /\ t \in trainer_storage
          /\ available
          /\ \E old \in DOMAIN booking_storage :
                 /\ booking_storage[old].trainer_id = t
                 /\ Terminal(booking_storage[old])
                 /\ overlaps_with(booking_storage[old].time_slot, s)
          /\ ~Conflicting(t, s)
          /\ create_booking(c, t, s, d, id, available)
          => last'.result = Ok]_vars

\* a booking was completed, and the create_booking that has just succeeded
\* stored a later booking of the same trainer in an overlapping slot
C15_Witness ==
    /\ last.op = "create_booking"
    /\ last.result = Ok
    /\ \E old \in DOMAIN booking_storage :
           LET new == booking_storage[last.booking_id] IN
           /\ old # last.booking_id
           /\ booking_storage[old].status = COMPLETED
           /\ booking_storage[old].trainer_id = new.trainer_id
           /\ booking_storage[old].booking_date < new.booking_date
           /\ overlaps_with(booking_storage[old].time_slot, new.time_slot)
           /\ new.status = PENDING

\* the last call on a value object was op
Made(op) == call # None /\ call[1].op = op

\* C16: overlaps_with is symmetric: for any two time slots a and b, on the
\* same date or on different dates, a.overlaps_with(b) returns what
\* b.overlaps_with(a) returns.
C16_OverlapSymmetric ==
    Made("overlaps_with") =>
        LET a == call[1].args[1]
            b == call[1].args[2]
        IN call[1].result = overlaps_with(b, a)

\* overlaps_with has just returned FALSE for two slots on different dates
\* whose hours intersect
C16_Witness ==
    /\ Made("overlaps_with")
    /\ LET a == call[1].args[1]
           b == call[1].args[2]
       IN /\ a.date # b.date
          /\ a.start_time < b.end_time
          /\ b.start_time < a.end_time
          /\ call[1].result = FALSE

\* C17: two time slots overlap exactly when they are on the same date and
\* each starts strictly before the other ends.  So slots on different dates
\* never overlap, slots that only touch (one ends when the other starts) do
\* not overlap, and every slot overlaps itself.
C17_OverlapDefinition ==
    Made("overlaps_with") =>
        LET a == call[1].args[1]
            b == call[1].args[2]
            result == call[1].result
        IN /\ result = (/\ a.date = b.date
                        /\ a.start_time < b.end_time
                        /\ b.start_time < a.end_time)
           /\ a.date # b.date => ~result
           /\ a.end_time = b.start_time \/ b.end_time = a.start_time => ~result
           /\ a = b => result

\* overlaps_with has just returned FALSE for two slots of one date that touch
C17_Witness ==
    /\ Made("overlaps_with")
    /\ LET a == call[1].args[1]
           b == call[1].args[2]
       IN /\ a.date = b.date
          /\ a.end_time = b.start_time
          /\ call[1].result = FALSE

\* C18: constructing a TimeSlot succeeds exactly when its end time is
\* strictly after its start time; with an end equal to or before the start it
\* fails, so every TimeSlot that exists has start < end.
C18_TimeSlotConstruction ==
    /\ Made("TimeSlot") =>
           LET date == call[1].args[1]
               start_time == call[1].args[2]
               end_time == call[1].args[3]
           IN /\ end_time > start_time =>
                     call[1].result = Some([date |-> date,
                                            start_time |-> start_time,
                                            end_time |-> end_time])
              /\ end_time <= start_time => call[1].result = None
    /\ \A s \in SlotsTried \cup TimeSlot : s.start_time < s.end_time

\* constructing a TimeSlot whose end equals its start has just failed
C18_Witness ==
    /\ Made("TimeSlot")
    /\ call[1].args[2] = call[1].args[3]
    /\ call[1].result = None

\* C19: constructing a SessionDuration succeeds exactly for an integer number
\* of minutes from 30 to 120, both included, and fails for every value below
\* 30 or above 120.
C19_SessionDurationRange ==
    Made("SessionDuration") =>
        LET minutes == call[1].args[1] IN
        /\ minutes \in 30..120 => call[1].result = Some(minutes)
        /\ minutes < 30 \/ minutes > 120 => call[1].result = None

\* constructing a SessionDuration of exactly 120 minutes has just succeeded
C19_Witness ==
    /\ Made("SessionDuration")
    /\ call[1].args[1] = 120
    /\ call[1].result # None

\* C20: confirm_booking, reject_booking, cancel_booking and complete_booking
\* called with a booking id that is not in the store each fail with the
\* not-found error for the booking, and the booking store is unchanged: no
\* booking is created, altered or removed.
C20_UnknownBooking ==
    [][TransitionStep /\ last'.booking_id \notin DOMAIN booking_storage =>
          /\ last'.result = NotFoundBooking
          /\ booking_storage' = booking_storage]_vars

\* while one booking is stored, a complete_booking with the other identifier
\* has just failed with the not-found error
C20_Witness ==
    /\ last.op = "complete_booking"
    /\ last.result = NotFoundBooking
    /\ last.booking_id \notin DOMAIN booking_storage
    /\ DOMAIN booking_storage # {}

\* C21 (the part about deletion): no BookingService call removes an
\* identifier from the booking store; the set of stored identifiers only
\* grows.
C21_IdsOnlyGrow ==
    [][DOMAIN booking_storage \subseteq DOMAIN booking_storage']_vars

\* C21: BookingService never deletes a booking: across any sequence of its
\* calls the set of stored booking identifiers only grows, and a booking that
\* get_booking once returned is returned by every later get_booking with the
\* same identifier.
C21_NeverDeleted ==
    [][/\ DOMAIN booking_storage \subseteq DOMAIN booking_storage'
       /\ KeptUnderItsId]_vars

\* C24: in confirm and reject the trainer check comes before the status
\* check.  When the acting trainer id differs from the booking's trainer_id
\* and the status is not PENDING, the call fails with the authorization
\* error, not the invalid-state error; the invalid-state error is reported
\* only to the booking's own trainer.
C24_TrainerCheckFirst ==
    [][(ConfirmStep \/ RejectStep) /\ last'.booking_id \in DOMAIN booking_storage =>
          LET b == booking_storage[last'.booking_id]
              t == last'.by
          IN /\ t # b.trainer_id /\ b.status # PENDING
                    => last'.result = AuthorizationError
             /\ last'.result = InvalidStateError => t = b.trainer_id]_vars

\* a reject by another trainer on a booking that is no longer PENDING has
\* just failed with the authorization error
C24_Witness ==
    /\ last.op = "reject_booking"
    /\ last.result = AuthorizationError
    /\ last.booking_id \in DOMAIN booking_storage
    /\ booking_storage[last.booking_id].status # PENDING
    /\ last.by # booking_storage[last.booking_id].trainer_id

\* C25: conflict detection is scoped to the trainer.  An active booking of one
\* trainer never makes create_booking for a different trainer fail, whatever
\* the slots: a create_booking fails on a conflict only when an active booking
\* of the requested trainer itself overlaps the slot, and with client and
\* trainer known, the trainer available and no such booking it succeeds even
\* while another trainer holds an active booking in an overlapping slot.
C25_ConflictPerTrainer ==
    [][last'.op = "create_booking" =>
       \A c \in ClientIds, t \in TrainerIds, s \in TimeSlot, d \in SessionDuration,
          id \in IdDrawn, available \in BOOLEAN :
          create_booking(c, t, s, d, id, available) =>
              /\ last'.result = ConflictError => Conflicting(t, s)
              /\ (/\ c \in client_storage
                  /\ t \in trainer_storage
                  /\ available
                  /\ ~Conflicting(t, s)
                  /\ \E other \in DOMAIN booking_storage :
                         /\ booking_storage[other].trainer_id # t
                         /\ Active(booking_storage[other])
                         /\ overlaps_with(booking_storage[other].time_slot, s))
                 => last'.result = Ok]_vars

\* create_booking has just succeeded and one client now holds two active
\* bookings in overlapping slots, with different trainers
C25_Witness ==
    /\ last.op = "create_booking"
    /\ last.result = Ok
    /\ \E other \in DOMAIN booking_storage :
           LET new == booking_storage[last.booking_id]
               old == booking_storage[other]
           IN /\ other # last.booking_id
              /\ old.client_id = new.client_id
              /\ old.trainer_id # new.trainer_id
              /\ Active(old) /\ Active(new)
              /\ old.booking_date < new.booking_date
              /\ overlaps_with(old.time_slot, new.time_slot)

\* C26: frame of the lifecycle calls.  A confirm_booking, reject_booking,
\* cancel_booking or complete_booking on booking b, successful or failed,
\* leaves every other stored booking as it was, adds and removes none, and
\* leaves b's booking_id, client_id, trainer_id, time_slot, duration and
\* creation timestamp as they were: only b's status, confirmation timestamp
\* and cancellation reason can change.
C26_TransitionFrame ==
    [][TransitionStep =>
          /\ DOMAIN booking_storage' = DOMAIN booking_storage
          /\ \A id \in DOMAIN booking_storage :
                 /\ id # last'.booking_id
                        => booking_storage'[id] = booking_storage[id]
                 /\ Identity(booking_storage'[id]) = Identity(booking_storage[id])]_vars

\* with two bookings stored, a confirm on one of them has just succeeded
C26_Witness ==
    /\ last.op = "confirm_booking"
    /\ last.result = Ok
    /\ Cardinality(DOMAIN booking_storage) = 2
    /\ booking_storage[last.booking_id].status = CONFIRMED

\* C27: status and optional fields stay consistent.  In every reachable state
\* and for every stored booking: (a) PENDING implies no confirmation timestamp
\* and no cancellation reason; (b) CONFIRMED or COMPLETED implies a
\* confirmation timestamp and no cancellation reason; (c) a cancellation
\* reason is recorded if and only if the status is CANCELLED.
C27_FieldsMatchStatus ==
    \A id \in DOMAIN booking_storage :
        LET b == booking_storage[id] IN
        /\ b.status = PENDING
               => b.confirmed_date = None /\ b.cancellation_reason = None
        /\ b.status \in {CONFIRMED, COMPLETED}
               => b.confirmed_date # None /\ b.cancellation_reason = None
        /\ b.cancellation_reason # None <=> b.status = CANCELLED

\* a booking cancelled after it was confirmed is stored next to a pending one
C27_Witness ==
    \E id, other \in DOMAIN booking_storage :
        /\ booking_storage[id].status = CANCELLED
        /\ booking_storage[id].confirmed_date # None
        /\ booking_storage[id].cancellation_reason # None
        /\ booking_storage[other].status = PENDING

\* how many lifecycle calls have succeeded on a booking, read off the booking:
\* none while PENDING, one when CONFIRMED or cancelled or rejected while
\* PENDING, two when COMPLETED or cancelled after the confirmation
Succeeded(booking) ==
    CASE booking.status = PENDING -> 0
      [] booking.status = CONFIRMED -> 1
      [] booking.status = COMPLETED -> 2
      [] booking.status = CANCELLED ->
             IF booking.confirmed_date = None THEN 1 ELSE 2

\* C28: the lifecycle of a booking is bounded.  A booking starts with no
\* successful lifecycle call; every successful confirm, reject, cancel or
\* complete on it adds one and every failed one adds none; the number never
\* passes two; and after the second success, or after a first success that
\* leads to CANCELLED, every further call on the booking fails.
C28_AtMostTwoSuccesses ==
    [][/\ TransitionStep /\ last'.booking_id \in DOMAIN booking_storage =>
            LET before == booking_storage[last'.booking_id]
                after == booking_storage'[last'.booking_id]
            IN /\ last'.result = Ok =>
                      /\ Succeeded(after) = Succeeded(before) + 1
                      /\ Succeeded(after) <= 2
               /\ last'.result # Ok => Succeeded(after) = Succeeded(before)
               /\ Succeeded(before) = 2 \/ before.status = CANCELLED
                      => last'.result # Ok
       /\ last'.op = "create_booking" /\ last'.result = Ok /\ CreateBooking =>
            Succeeded(booking_storage'[last'.booking_id]) = 0]_vars

\* after two successes (confirm, then complete) a further confirm by the
\* booking's trainer has just failed
C28_Witness ==
    /\ last.op = "confirm_booking"
    /\ last.result = InvalidStateError
    /\ last.booking_id \in DOMAIN booking_storage
    /\ booking_storage[last.booking_id].status = COMPLETED
    /\ Succeeded(booking_storage[last.booking_id]) = 2

\* C30: the session duration never influences booking acceptance or
\* conflicts.  For given stores, client, trainer, slot and availability answer,
\* create_booking ends the same way, with the same error, for every valid
\* duration: its result is what the four checks give, which do not take the
\* duration; a successful call stores the duration as passed, whatever the
\* length of the slot (a one-hour slot with duration 120 is accepted).
C30_DurationIgnored ==
    [][last'.op = "create_booking" =>
       \A c \in ClientIds, t \in TrainerIds, s \in TimeSlot, d \in DurationsTried,
          id \in IdDrawn, available \in BOOLEAN :
          create_booking(c, t, s, d, id, available) =>
              /\ last'.result =
                     (IF c \notin client_storage THEN NotFoundClient
                      ELSE IF t \notin trainer_storage THEN NotFoundTrainer
                      ELSE IF ~available THEN AvailabilityError
                      ELSE IF Conflicting(t, s) THEN ConflictError
                      ELSE Ok)
              /\ last'.result = Ok => booking_storage'[id].duration = d]_vars

\* a booking of 120 minutes in a one-hour slot has just been accepted
C30_Witness ==
    /\ last.op = "create_booking"
    /\ last.result = Ok
    /\ LET b == booking_storage[last.booking_id] IN
           /\ b.duration = 120
           /\ b.time_slot.end_time - b.time_slot.start_time = 1

Registered(email) ==
    \E id \in DOMAIN user_storage : user_storage[id].email = EmailStr(email)

\* C23: no two stored users have the same email, and a register call whose
\* email is already registered answers 400 and leaves the user store as it
\* was, the existing user's password hash and role included
C23_UniqueEmails ==
    /\ [](\A id1, id2 \in DOMAIN user_storage :
            user_storage[id1].email = user_storage[id2].email => id1 = id2)
    /\ [][last'.op = "register" =>
            \A email \in EmailsTried, password \in PasswordsTried,
               role \in UserRole, id \in UserIdsDrawn :
                (Registered(email) /\ register(email, password, role, id)) =>
                    /\ last'.result = Http400
                    /\ user_storage' = user_storage]_vars

\* a register call with a sound password was refused for its email, which a
\* stored user of another role and password holds, next to a second user
C23_Witness ==
    /\ last.op = "register"
    /\ last.result = Http400
    /\ \E id \in DOMAIN user_storage :
        /\ user_storage[id].email = last.by
        /\ user_storage[id].role = "TRAINER"
    /\ Cardinality(DOMAIN user_storage) = 2

\* what the header fails on, read off the token and the user store
Unauthenticated(bearer) ==
    \/ bearer = None
    \/ ~bearer[1].signed
    \/ bearer[1].expired
    \/ bearer[1].sub = None
    \/ bearer[1].sub[1] \notin DOMAIN user_storage

Inactive(bearer) ==
    /\ ~Unauthenticated(bearer)
    /\ ~user_storage[bearer[1].sub[1]].is_active

\* a request to any of the nine /bookings routes, made with this header
BookingsRequest(bearer) ==
    \/ \E c \in ClientIds, t \in HttpTrainerIds, date \in Dates,
          start_time \in {9}, end_time \in HttpTimes, minutes \in HttpMinutes,
          id \in HttpBookingIds, available \in BOOLEAN :
           http_create_booking(bearer, c, t, date, start_time, end_time,
                               minutes, id, available)
    \/ http_get_all_bookings(bearer)
    \/ \E id \in HttpBookingIds : http_get_booking(bearer, id)
    \/ \E id \in HttpBookingIds, t \in TrainerIds :
           http_confirm_booking(bearer, id, t)
    \/ \E id \in HttpBookingIds, t \in TrainerIds, reason \in Reasons :
           http_reject_booking(bearer, id, t, reason)
    \/ \E id \in HttpBookingIds, u \in HttpUserIds, reason \in Reasons :
           http_cancel_booking(bearer, id, u, reason)
    \/ \E id \in HttpBookingIds : http_complete_booking(bearer, id)
    \/ \E c \in ClientIds : http_get_bookings_by_client(bearer, c)
    \/ \E t \in TrainerIds : http_get_bookings_by_trainer(bearer, t)

Refusal(bearer) ==
    /\ last'.op = "get_current_active_user"
    /\ last'.result = IF Unauthenticated(bearer) THEN Http401 ELSE Http403
    /\ booking_storage' = booking_storage
    /\ now' = now

\* C22: a request to any /bookings route with no bearer token, a token that
\* does not decode (bad signature or expired), a token without a subject or
\* a token whose subject is not a stored user is answered 401, and 403 when
\* the user is stored but inactive; in each case the service is not called
\* and the booking store stays as it was
C22_BookingsNeedAuthentication ==
    [][\A bearer \in BearersTried :
        (Unauthenticated(bearer) \/ Inactive(bearer)) =>
            (Refusal(bearer) \/ ~BookingsRequest(bearer))]_vars

\* a request was answered 403 while a booking is stored: its sender is an
\* inactive user, and another user is still active
C22_Witness ==
    /\ last.op = "get_current_active_user"
    /\ last.result = Http403
    /\ booking_storage # <<>>
    /\ \E id \in DOMAIN user_storage : ~user_storage[id].is_active
    /\ \E id \in DOMAIN user_storage : user_storage[id].is_active

Authenticated(bearer) == ~Unauthenticated(bearer) /\ ~Inactive(bearer)

\* C29: the routes pass the body's trainer_id or user_id to the service and
\* never look at the authenticated user: a confirm, reject or cancel request
\* made by one authenticated active user has the same outcome and leaves the
\* same state when any other authenticated active user, of any id and role,
\* sends the same body; and whoever is authenticated and names a PENDING
\* booking's trainer_id confirms or rejects it
C29_BodyNamesTheActor ==
    [][\A bearer1 \in BearersTried : Authenticated(bearer1) =>
        /\ \A id \in HttpBookingIds, t \in TrainerIds :
            http_confirm_booking(bearer1, id, t) =>
                /\ \A bearer2 \in BearersTried : Authenticated(bearer2) =>
                        http_confirm_booking(bearer2, id, t)
                /\ (/\ id \in DOMAIN booking_storage
                    /\ booking_storage[id].status = PENDING
                    /\ booking_storage[id].trainer_id = t) =>
                        /\ last'.result = Ok
                        /\ booking_storage'[id].status = CONFIRMED
        /\ \A id \in HttpBookingIds, t \in TrainerIds, reason \in Reasons :
            http_reject_booking(bearer1, id, t, reason) =>
                /\ \A bearer2 \in BearersTried : Authenticated(bearer2) =>
                        http_reject_booking(bearer2, id, t, reason)
                /\ (/\ id \in DOMAIN booking_storage
                    /\ booking_storage[id].status = PENDING
                    /\ booking_storage[id].trainer_id = t) =>
                        /\ last'.result = Ok
                        /\ booking_storage'[id].status = CANCELLED
        /\ \A id \in HttpBookingIds, u \in HttpUserIds, reason \in Reasons :
            http_cancel_booking(bearer1, id, u, reason) =>
                \A bearer2 \in BearersTried : Authenticated(bearer2) =>
                    http_cancel_booking(bearer2, id, u, reason)]_vars

\* a booking was confirmed over HTTP while the only stored users are an
\* active CLIENT and an active ADMIN: the sender was not the booking's trainer
C29_Witness ==
    /\ last.op = "confirm_booking"
    /\ last.result = Ok
    /\ last.booking_id \in DOMAIN booking_storage
    /\ booking_storage[last.booking_id].trainer_id = last.by
    /\ DOMAIN user_storage = {"USR1", "USR3"}
    /\ \A id \in DOMAIN user_storage :
        /\ user_storage[id].is_active
        /\ user_storage[id].role \in {"CLIENT", "ADMIN"}
        /\ id # last.by

====
